---- MODULE Spec2Model ----
(***************************************************************************)
(* Model of src/app.py: a Streamlit script that is re-executed from top to *)
(* bottom on every user interaction.  One rerun acquires the cached        *)
(* connection handles (init_connections, lines 26-49) and then runs the    *)
(* button handler (lines 126-141), which on a submission calls             *)
(* kg_enhanced_obesity_rag (lines 59-122): similarity search, guideline    *)
(* query, recipe query, LLM invocation, all inside one try/except.         *)
(*                                                                         *)
(* Text is modelled as a sequence of tokens.  The Korean keywords of lines *)
(* 75-77 are spelled syllable by syllable in romanised form, fixed         *)
(* literals of the source are single tokens.                               *)
(***************************************************************************)
EXTENDS Integers, Sequences, FiniteSets, TLC

VARIABLES
    vector_store,        \* binding of the global name vector_store (line 63)
    cache,               \* st.cache_resource entry of init_connections (line 26)
    bodyRuns,            \* executions of the body of init_connections started
    bodyReturns,         \* executions of the body that reached its return (line 47)
    firstHandles,        \* objects returned by the first completed execution
    graph_guideline,     \* script globals bound at line 49
    graph_recipe,
    llm,
    user_input,          \* st.text_input value of this rerun (line 126)
    button,              \* st.button value of this rerun (line 128)
    pc,                  \* position of the script
    invoked,             \* kg_enhanced_obesity_rag was entered during this rerun
    question,            \* locals of kg_enhanced_obesity_rag
    doc_ids,
    guideline_results,
    full_guideline_text,
    min_protein,
    max_sodium,
    max_kcal,
    kg_context,
    prompt,
    answer,
    trace,               \* steps of kg_enhanced_obesity_rag entered by this invocation
    calls,               \* external calls issued by this invocation, in order
    raised,              \* exception caught at line 121 by this invocation
    page,                \* elements rendered by this rerun
    prev                 \* the last submission that was rendered before this one

vars == <<vector_store, cache, bodyRuns, bodyReturns, firstHandles,
          graph_guideline, graph_recipe, llm, user_input, button, pc, invoked,
          question, doc_ids, guideline_results, full_guideline_text,
          min_protein, max_sodium, max_kcal, kg_context, prompt, answer,
          trace, calls, raised, page, prev>>

\* Bound on the executions of init_connections that raise.
MaxInitFailures == 2

-----------------------------------------------------------------------------
\* Python values and text

None == [type |-> "NoneType"]

PyStr(s) == [type |-> "str", val |-> s]

\* f-string conversion of a value ({rec['food_title']}, {rec['kcal']}).
Format(v) ==
    IF v.type = "str" THEN v.val
    ELSE IF v.type = "int" THEN <<ToString(v.val)>>
    ELSE <<"None">>

PyInt(n) == [type |-> "int", val |-> n]

\* Python's `kw in text` on strings: kw occurs as a contiguous substring.
Contains(text, kw) ==
    \E i \in 1..(Len(text) - Len(kw) + 1) : SubSeq(text, i, i + Len(kw) - 1) = kw

RECURSIVE Join(_, _)
\* sep.join(parts)
Join(sep, parts) ==
    IF parts = <<>> THEN <<>>
    ELSE IF Len(parts) = 1 THEN parts[1]
    ELSE parts[1] \o sep \o Join(sep, Tail(parts))

RECURSIVE Concat(_)
\* repeated += of the pieces, in order
Concat(parts) ==
    IF parts = <<>> THEN <<>> ELSE parts[1] \o Concat(Tail(parts))

\* The keywords of lines 75-77.
KwProtein == <<"dan", "baek", "jil">>
KwSarcopenia == <<"geun", "gam", "so">>
KwSodium == <<"na", "teu", "ryum">>
KwSenior == <<"eo", "reu", "sin">>
KwLowCal == <<"jeo", "yeol", "ryang">>
KwObesity == <<"bi", "man">>

-----------------------------------------------------------------------------
\* Exceptions.  Every class below derives from Exception.

NoExc == [cls |-> "", msg |-> <<>>]

\* Line 63 evaluates the global name vector_store, which app.py never binds.
NameError == [cls |-> "NameError", msg |-> <<"name 'vector_store' is not defined">>]

\* str.join on a row whose content is null (line 72); i is the 0-based index.
TypeError(i) ==
    [cls |-> "TypeError",
     msg |-> <<"sequence item ", ToString(i), ": expected str instance, NoneType found">>]

\* What each external service may raise.
ServiceError(svc) ==
    CASE svc = "similarity_search" -> [cls |-> "VectorStoreError", msg |-> <<"search failed">>]
      [] svc = "guideline_query" -> [cls |-> "ServiceUnavailable", msg |-> <<"guideline db down">>]
      [] svc = "recipe_query" -> [cls |-> "CypherSyntaxError", msg |-> <<"recipe query rejected">>]
      [] svc = "llm_invoke" -> [cls |-> "RateLimitError", msg |-> <<"429">>]

\* Neo4jGraph(...) at lines 31-44 raises when the database cannot be reached.
ConnectError == [cls |-> "ValueError", msg |-> <<"could not connect to Neo4j">>]

CaughtOnlyValueError(e) == e.cls = "ValueError"

\* `except Exception` (line 121).
Caught(e) == e.cls /= "" /\ e.cls \notin {"KeyboardInterrupt", "SystemExit"}

ErrPrefix == "(warning sign) error: "

\* f"... {str(e)}" (line 122)
ErrorAnswer(e) == <<ErrPrefix>> \o e.msg

-----------------------------------------------------------------------------
\* Inputs and what the external services answer

EmptyText == <<>>

\* Questions typed into the text box: one names a keyword of line 77, one does not.
Questions == { <<"bi", "man", " ", "sik", "dan">>, <<"un", "dong">> }

DocWithId(i) == [metadata |-> [id |-> i]]
DocWithoutId == [metadata |-> [source |-> "pdf"]]

\* similarity_search(question, k=3) returns at most K documents.
K == 3

SimResponses ==
    { docs \in { <<>>,
                 <<DocWithId(1)>>,
                 <<DocWithoutId, DocWithId(1), DocWithId(2)>> } : Len(docs) <= K }

Row(title, content) == [chapter_title |-> title, content |-> content]

\* Rows the guideline database may return for a non-empty list of ids.
GuidelineRows ==
    { <<>>,
      <<Row(<<"ch1">>, PyStr(<<"dan", "baek", "jil", " ", "seop", "chwi">>))>>,
      <<Row(<<"ch1">>, PyStr(<<"geun", "gam", "so">>)),
        Row(<<"ch2">>, PyStr(<<"na", "teu", "ryum">>))>>,
      <<Row(<<"ch2">>, PyStr(<<"bi", "man", " ", "eo", "reu", "sin">>))>>,
      <<Row(<<"ch3">>, PyStr(<<"jeo", "yeol", "ryang">>))>>,
      <<Row(<<"ch1">>, PyStr(<<"dan", "baek">>)), Row(<<"ch1">>, PyStr(<<"jil">>))>>,
      <<Row(<<"ch3">>, PyStr(<<"un", "dong">>))>>,
      <<Row(<<"ch1">>, PyStr(<<"bi", "man">>)), Row(<<"ch2">>, None)>> }

\* WHERE reco.id IN $doc_ids (line 68): no id, no row.
GuidelineResponses(ids) == IF ids = <<>> THEN { <<>> } ELSE GuidelineRows

Recipe(food, title, ingredients, kcal, protein, sodium) ==
    [food_title |-> food, recipe_title |-> title, ingredients |-> ingredients,
     kcal |-> kcal, protein |-> protein, sodium |-> sodium]

RecipeLean == Recipe(PyStr(<<"dubu">>), <<"dubu jorim">>, <<<<"dubu">>, <<"pa">>>>, 450, 25, 400)
RecipeRich == Recipe(None, <<"ramyeon">>, <<>>, 700, 10, 1800)

\* The WHERE clause of lines 82-84.
Matches(r, p) ==
    r.protein >= p.min_protein /\ r.sodium <= p.max_sodium /\ r.kcal <= p.max_kcal

\* Rows the recipe database may return: matching rows, ORDER BY protein DESC.
RecipeResponses(p) ==
    { rows \in { <<>>, <<RecipeLean>>, <<RecipeRich>>, <<RecipeLean, RecipeRich>> } :
        \A i \in 1..Len(rows) : Matches(rows[i], p) }

\* Texts the chat model may return.
LLMResponses == { <<"eat tofu">>, <<"see a doctor">> }

-----------------------------------------------------------------------------
\* kg_enhanced_obesity_rag, the pure parts

HasId(doc) == "id" \in DOMAIN doc.metadata
IdOf(doc) == doc.metadata.id

RECURSIVE DocIds(_)
\* line 64: [doc.metadata["id"] for doc in docs if "id" in doc.metadata]
DocIds(docs) ==
    IF docs = <<>> THEN <<>>
    ELSE IF HasId(docs[1]) THEN <<IdOf(docs[1])>> \o DocIds(Tail(docs))
    ELSE DocIds(Tail(docs))

ContentOf(r) == r.content
IsNotStr(v) == v.type /= "str"
ValOf(v) == v.val

\* Index of the first row whose content is not a string, 0 when all are.
FirstNotStr(rows) ==
    IF \E i \in 1..Len(rows) : IsNotStr(rows[i].content)
    THEN CHOOSE i \in 1..Len(rows) :
            /\ IsNotStr(rows[i].content)
            /\ \A j \in 1..(i - 1) : ~IsNotStr(rows[j].content)
    ELSE 0

\* line 72, for rows whose content is a string throughout
FullGuidelineText(rows) ==
    Join(<<" ">>, [i \in 1..Len(rows) |-> ValOf(ContentOf(rows[i]))])

MinProteinBug(text) ==
    IF Contains(text, KwProtein) /\ Contains(text, KwSarcopenia) THEN 20 ELSE 0

\* line 75
MinProtein(text) ==
    IF Contains(text, KwProtein) \/ Contains(text, KwSarcopenia) THEN 20 ELSE 0

\* line 76
MaxSodium(text) ==
    IF Contains(text, KwSodium) \/ Contains(text, KwSenior) THEN 500 ELSE 2000

\* line 77
MaxKcal(text) ==
    IF Contains(text, KwLowCal) \/ Contains(text, KwObesity) THEN 600 ELSE 2000

\* lines 103-106
RecipeLines(rec) ==
    <<"- menu: ">> \o Format(rec.food_title) \o <<"\n">>
    \o <<"- recipe: ">> \o rec.recipe_title \o <<"\n">>
    \o <<"  * ingredients: ">> \o Join(<<", ">>, rec.ingredients) \o <<"\n">>
    \o <<"  * nutrition: ">> \o Format(PyInt(rec.kcal)) \o <<"kcal, protein ">>
    \o Format(PyInt(rec.protein)) \o <<"g, sodium ">> \o Format(PyInt(rec.sodium))
    \o <<"mg\n\n">>

\* lines 101-106
RecipeContext(rows) == Concat([i \in 1..Len(rows) |-> RecipeLines(rows[i])])

\* line 108, one row
GuidelineLine(r) == <<"- ">> \o r.chapter_title \o <<": ">> \o Format(r.content)

\* lines 108-109
KgContext(grows, rrows) ==
    <<"[guideline basis]\n">> \o Join(<<"\n">>, [i \in 1..Len(grows) |-> GuidelineLine(grows[i])])
    \o <<"\n\n[recommended diet]\n">>
    \o (IF RecipeContext(rrows) /= <<>> THEN RecipeContext(rrows)
        ELSE <<"no matching recipe">>)

BuildPromptWithHistory(q, context) ==
    <<"You are an AI dietitian ... ">> \o prev.answer \o context \o <<" question: ">> \o q

\* lines 111-117: the template with {context} and {question} filled in
BuildPrompt(q, context) ==
    <<"You are an AI dietitian ... ">> \o context \o <<" question: ">> \o q

-----------------------------------------------------------------------------
\* Control flow

StepOrderSwapped(step) ==
    CASE step = "similarity_search" -> "recipe_query"
      [] step = "recipe_query" -> "guideline_query"
      [] step = "guideline_query" -> "llm_invoke"
      [] step = "llm_invoke" -> "render"

\* The statement order of lines 63, 71, 97, 120; "render" is the return to line 131.
StepOrder(step) ==
    CASE step = "similarity_search" -> "guideline_query"
      [] step = "guideline_query" -> "recipe_query"
      [] step = "recipe_query" -> "llm_invoke"
      [] step = "llm_invoke" -> "render"

OnErrorRetry(step) == step

\* Where the except clause of lines 121-122 continues: it returns.
OnError(step) == "render"

AfterStep(step, ok) == IF ok THEN StepOrder(step) ELSE OnError(step)

EntryMemo(q) == IF prev.question = q THEN "render" ELSE "similarity_search"

\* Line 131 calls the function, whose first statement is line 63.
Entry(q) == "similarity_search"

BranchNoCheck(pressed, input) == IF pressed THEN "submit" ELSE "skip"

\* lines 128-129 and 140
Branch(pressed, input) ==
    IF pressed THEN (IF input /= EmptyText THEN "submit" ELSE "warn") ELSE "skip"

-----------------------------------------------------------------------------
\* Page elements

Element(kind, body) == [kind |-> kind, body |-> body]

Title == Element("title", <<"nutrition assistant">>)

\* lines 52-56
Sidebar == << Element("header", <<"system info">>),
              Element("success", <<"guideline db">>),
              Element("success", <<"recipe db">>),
              Element("info", <<"researcher">>) >>

Subheader == Element("subheader", <<"consultation">>)

Done == <<"analysis complete">>

BannerByOutcome(ans) ==
    IF raised.exc /= NoExc THEN Element("error", ans) ELSE Element("success", Done)

\* line 134
Banner(ans) == Element("success", Done)

\* lines 134-139
Rendered(ans) == << Banner(ans),
                    Element("markdown", <<"### answer">>),
                    Element("write", ans),
                    Element("divider", <<>>),
                    Element("caption", <<"source: guideline 2022">>) >>

\* line 141
Warning == Element("warning", <<"please enter text">>)

\* What Streamlit shows for an exception that leaves the script.
ExceptionElement(e) == Element("exception", e.msg)

-----------------------------------------------------------------------------
\* State

NoRaise == [exc |-> NoExc, at |-> ""]

NoPrev == [question |-> <<>>, responses |-> <<>>, prompt |-> <<>>, answer |-> <<>>]

Call(svc, handle, args, ok, ret) ==
    [svc |-> svc, handle |-> handle, args |-> args, ok |-> ok, ret |-> ret]

ResponseOf(c) == [svc |-> c.svc, ok |-> c.ok, ret |-> c.ret]

\* What the external services answered to this invocation.
Responses == [i \in 1..Len(calls) |-> ResponseOf(calls[i])]

\* The locals of kg_enhanced_obesity_rag before its first statement.
FreshLocals ==
    /\ question = <<>>
    /\ doc_ids = <<>>
    /\ guideline_results = <<>>
    /\ full_guideline_text = <<>>
    /\ min_protein = -1
    /\ max_sodium = -1
    /\ max_kcal = -1
    /\ kg_context = <<>>
    /\ prompt = <<>>
    /\ answer = <<>>
    /\ trace = <<>>
    /\ calls = <<>>
    /\ raised = NoRaise

\* A new script run starts with none of the locals bound.
ResetLocals ==
    /\ question' = <<>>
    /\ doc_ids' = <<>>
    /\ guideline_results' = <<>>
    /\ full_guideline_text' = <<>>
    /\ min_protein' = -1
    /\ max_sodium' = -1
    /\ max_kcal' = -1
    /\ kg_context' = <<>>
    /\ prompt' = <<>>
    /\ answer' = <<>>
    /\ trace' = <<>>
    /\ calls' = <<>>
    /\ raised' = NoRaise

\* The process before the first script run.  app.py never binds vector_store
\* ("unbound"); the comment at lines 61-62 expects it to be defined beforehand
\* ("bound"), so both processes are covered.
Init ==
    /\ vector_store \in {"unbound", "bound"}
    /\ cache = <<>>
    /\ bodyRuns = 0
    /\ bodyReturns = 0
    /\ firstHandles = <<>>
    /\ graph_guideline = 0
    /\ graph_recipe = 0
    /\ llm = 0
    /\ user_input = EmptyText
    /\ button = FALSE
    /\ pc = "idle"
    /\ invoked = FALSE
    /\ FreshLocals
    /\ page = <<>>
    /\ prev = NoPrev

process == <<vector_store, cache, bodyRuns, bodyReturns, firstHandles>>
globals == <<graph_guideline, graph_recipe, llm>>
widgets == <<user_input, button>>
thresholds == <<min_protein, max_sodium, max_kcal>>

\* A user interaction: Streamlit reruns the script from line 1 with the widget values.
Interact(input, pressed) ==
    /\ pc = "idle"
    /\ user_input' = input
    /\ button' = pressed
    /\ pc' = "init"
    /\ page' = <<Title>>
    /\ invoked' = FALSE
    /\ graph_guideline' = 0 /\ graph_recipe' = 0 /\ llm' = 0
    /\ ResetLocals
    /\ UNCHANGED <<process, prev>>

CacheWriteNothing(objs) == <<>>

\* st.cache_resource stores what the body returned.
CacheWrite(objs) == objs

\* Line 49, the cache holds an entry: the body is not executed.
InitConnectionsHit ==
    /\ pc = "init"
    /\ cache /= <<>>
    /\ graph_guideline' = cache[1] /\ graph_recipe' = cache[2] /\ llm' = cache[3]
    /\ page' = page \o Sidebar \o <<Subheader>>
    /\ pc' = "button"
    /\ UNCHANGED <<process, widgets, invoked, question, doc_ids, guideline_results,
                   full_guideline_text, thresholds, kg_context, prompt, answer,
                   trace, calls, raised, prev>>

\* Line 49, no entry: the body (lines 28-47) runs and returns three new objects.
InitConnectionsMiss ==
    /\ pc = "init"
    /\ cache = <<>>
    /\ bodyRuns' = bodyRuns + 1
    /\ bodyReturns' = bodyReturns + 1
    /\ LET objs == <<bodyRuns + 1, bodyRuns + 1, bodyRuns + 1>> IN
         /\ cache' = CacheWrite(objs)
         /\ firstHandles' = IF bodyReturns = 0 THEN objs ELSE firstHandles
         /\ graph_guideline' = objs[1] /\ graph_recipe' = objs[2] /\ llm' = objs[3]
    /\ page' = page \o Sidebar \o <<Subheader>>
    /\ pc' = "button"
    /\ UNCHANGED <<vector_store, widgets, invoked, question, doc_ids, guideline_results,
                   full_guideline_text, thresholds, kg_context, prompt, answer,
                   trace, calls, raised, prev>>

\* Line 49, no entry, and the body raises: nothing is stored, the script run ends.
InitConnectionsRaise ==
    /\ pc = "init"
    /\ cache = <<>>
    /\ bodyRuns - bodyReturns < MaxInitFailures
    /\ bodyRuns' = bodyRuns + 1
    /\ page' = Append(page, ExceptionElement(ConnectError))
    /\ pc' = "idle"
    /\ UNCHANGED <<vector_store, cache, bodyReturns, firstHandles, globals, widgets,
                   invoked, question, doc_ids, guideline_results, full_guideline_text,
                   thresholds, kg_context, prompt, answer, trace, calls, raised, prev>>

\* Lines 128-131: the button was pressed with text in the box.
Submit ==
    /\ pc = "button"
    /\ Branch(button, user_input) = "submit"
    /\ invoked' = TRUE
    /\ question' = user_input
    /\ pc' = Entry(user_input)
    /\ UNCHANGED <<process, globals, widgets, doc_ids, guideline_results,
                   full_guideline_text, thresholds, kg_context, prompt, answer,
                   trace, calls, raised, page, prev>>

\* Lines 128-129, 140-141: the button was pressed with an empty box.
WarnEmpty ==
    /\ pc = "button"
    /\ Branch(button, user_input) = "warn"
    /\ page' = Append(page, Warning)
    /\ pc' = "idle"
    /\ UNCHANGED <<process, globals, widgets, invoked, question, doc_ids,
                   guideline_results, full_guideline_text, thresholds, kg_context,
                   prompt, answer, trace, calls, raised, prev>>

\* Line 128: the button was not pressed, the script ends.
NoButton ==
    /\ pc = "button"
    /\ Branch(button, user_input) = "skip"
    /\ pc' = "idle"
    /\ UNCHANGED <<process, globals, widgets, invoked, question, doc_ids,
                   guideline_results, full_guideline_text, thresholds, kg_context,
                   prompt, answer, trace, calls, raised, page, prev>>

-----------------------------------------------------------------------------
\* kg_enhanced_obesity_rag, statement by statement

\* An exception e raised in `step`: lines 121-122 when the clause catches it,
\* otherwise it leaves the function and ends the script run.
Except(e, step) ==
    /\ raised' = [exc |-> e, at |-> step]
    /\ IF Caught(e)
       THEN /\ answer' = ErrorAnswer(e)
            /\ pc' = AfterStep(step, FALSE)
            /\ page' = page
       ELSE /\ answer' = answer
            /\ pc' = "idle"
            /\ page' = Append(page, ExceptionElement(e))

\* A step that completed.
Continue(step) ==
    /\ pc' = AfterStep(step, TRUE)
    /\ UNCHANGED <<answer, raised, page>>

\* Line 63 when the name vector_store is not bound: no call is made.
SimilaritySearchUnbound ==
    /\ pc = "similarity_search"
    /\ vector_store = "unbound"
    /\ trace' = Append(trace, "similarity_search")
    /\ Except(NameError, "similarity_search")
    /\ UNCHANGED <<process, globals, widgets, invoked, question, doc_ids,
                   guideline_results, full_guideline_text, thresholds, kg_context,
                   prompt, calls, prev>>

\* Lines 63-64: the search answers with docs.
SimilaritySearch(docs) ==
    /\ pc = "similarity_search"
    /\ vector_store = "bound"
    /\ trace' = Append(trace, "similarity_search")
    /\ calls' = Append(calls, Call("similarity_search", 0, question, TRUE, docs))
    /\ doc_ids' = DocIds(docs)
    /\ Continue("similarity_search")
    /\ UNCHANGED <<process, globals, widgets, invoked, question, guideline_results,
                   full_guideline_text, thresholds, kg_context, prompt, prev>>

\* Line 63: the search raises.
SimilaritySearchRaise ==
    /\ pc = "similarity_search"
    /\ vector_store = "bound"
    /\ trace' = Append(trace, "similarity_search")
    /\ calls' = Append(calls, Call("similarity_search", 0, question, FALSE, <<>>))
    /\ Except(ServiceError("similarity_search"), "similarity_search")
    /\ UNCHANGED <<process, globals, widgets, invoked, question, doc_ids,
                   guideline_results, full_guideline_text, thresholds, kg_context,
                   prompt, prev>>

\* Lines 66-77: the guideline database answers with rows.
GuidelineQuery(rows) ==
    /\ pc = "guideline_query"
    /\ trace' = Append(trace, "guideline_query")
    /\ calls' = Append(calls, Call("guideline_query", graph_guideline, doc_ids, TRUE, rows))
    /\ guideline_results' = rows
    /\ IF FirstNotStr(rows) = 0
       THEN /\ full_guideline_text' = FullGuidelineText(rows)
            /\ min_protein' = MinProtein(FullGuidelineText(rows))
            /\ max_sodium' = MaxSodium(FullGuidelineText(rows))
            /\ max_kcal' = MaxKcal(FullGuidelineText(rows))
            /\ Continue("guideline_query")
       ELSE /\ Except(TypeError(FirstNotStr(rows) - 1), "guideline_query")
            /\ UNCHANGED <<full_guideline_text, thresholds>>
    /\ UNCHANGED <<process, globals, widgets, invoked, question, doc_ids, kg_context,
                   prompt, prev>>

\* Line 71: the guideline query raises.
GuidelineQueryRaise ==
    /\ pc = "guideline_query"
    /\ trace' = Append(trace, "guideline_query")
    /\ calls' = Append(calls, Call("guideline_query", graph_guideline, doc_ids, FALSE, <<>>))
    /\ Except(ServiceError("guideline_query"), "guideline_query")
    /\ UNCHANGED <<process, globals, widgets, invoked, question, doc_ids,
                   guideline_results, full_guideline_text, thresholds, kg_context,
                   prompt, prev>>

\* The dictionary of lines 97-99.
RecipeParams ==
    [min_protein |-> min_protein, max_sodium |-> max_sodium, max_kcal |-> max_kcal]

\* Lines 79-109: the recipe database answers with rows.
RecipeQuery(rows) ==
    /\ pc = "recipe_query"
    /\ trace' = Append(trace, "recipe_query")
    /\ calls' = Append(calls, Call("recipe_query", graph_recipe,
                                   <<min_protein, max_sodium, max_kcal>>, TRUE, rows))
    /\ kg_context' = KgContext(guideline_results, rows)
    /\ Continue("recipe_query")
    /\ UNCHANGED <<process, globals, widgets, invoked, question, doc_ids,
                   guideline_results, full_guideline_text, thresholds, prompt, prev>>

\* Line 97: the recipe query raises.
RecipeQueryRaise ==
    /\ pc = "recipe_query"
    /\ trace' = Append(trace, "recipe_query")
    /\ calls' = Append(calls, Call("recipe_query", graph_recipe,
                                   <<min_protein, max_sodium, max_kcal>>, FALSE, <<>>))
    /\ Except(ServiceError("recipe_query"), "recipe_query")
    /\ UNCHANGED <<process, globals, widgets, invoked, question, doc_ids,
                   guideline_results, full_guideline_text, thresholds, kg_context,
                   prompt, prev>>

\* Lines 111-120: the chain formats the prompt and the model answers with text.
LLMInvoke(text) ==
    /\ pc = "llm_invoke"
    /\ trace' = Append(trace, "llm_invoke")
    /\ prompt' = BuildPrompt(question, kg_context)
    /\ calls' = Append(calls, Call("llm_invoke", llm, BuildPrompt(question, kg_context),
                                   TRUE, text))
    /\ answer' = text
    /\ pc' = AfterStep("llm_invoke", TRUE)
    /\ UNCHANGED <<process, globals, widgets, invoked, question, doc_ids,
                   guideline_results, full_guideline_text, thresholds, kg_context,
                   raised, page, prev>>

\* Line 120: the model call raises.
LLMInvokeRaise ==
    /\ pc = "llm_invoke"
    /\ trace' = Append(trace, "llm_invoke")
    /\ prompt' = BuildPrompt(question, kg_context)
    /\ calls' = Append(calls, Call("llm_invoke", llm, BuildPrompt(question, kg_context),
                                   FALSE, <<>>))
    /\ Except(ServiceError("llm_invoke"), "llm_invoke")
    /\ UNCHANGED <<process, globals, widgets, invoked, question, doc_ids,
                   guideline_results, full_guideline_text, thresholds, kg_context, prev>>

\* Lines 131-139: the function has returned, the banner and the answer are shown.
Render ==
    /\ pc = "render"
    /\ page' = page \o Rendered(answer)
    /\ prev' = [question |-> question, responses |-> Responses,
                prompt |-> prompt, answer |-> answer]
    /\ pc' = "idle"
    /\ UNCHANGED <<process, globals, widgets, invoked, question, doc_ids,
                   guideline_results, full_guideline_text, thresholds, kg_context,
                   prompt, answer, trace, calls, raised>>

Next ==
    \/ \E input \in Questions \cup {EmptyText}, pressed \in BOOLEAN : Interact(input, pressed)
    \/ InitConnectionsHit
    \/ InitConnectionsMiss
    \/ InitConnectionsRaise
    \/ Submit
    \/ WarnEmpty
    \/ NoButton
    \/ SimilaritySearchUnbound
    \/ \E docs \in SimResponses : SimilaritySearch(docs)
    \/ SimilaritySearchRaise
    \/ \E rows \in GuidelineResponses(doc_ids) : GuidelineQuery(rows)
    \/ GuidelineQueryRaise
    \/ \E rows \in RecipeResponses(RecipeParams) : RecipeQuery(rows)
    \/ RecipeQueryRaise
    \/ \E text \in LLMResponses : LLMInvoke(text)
    \/ LLMInvokeRaise
    \/ Render

Spec == Init /\ [][Next]_vars

-----------------------------------------------------------------------------
\* Properties

CountOf(e) == Cardinality({ i \in 1..Len(page) : page[i] = e })

\* The function was called by this rerun and has returned.
Returned == invoked /\ pc \in {"render", "idle"}

\* This rerun reached line 128 with the button pressed and text in the box.
Submitted == button /\ user_input /= EmptyText /\ pc \notin {"init", "button"} /\ graph_guideline /= 0

AllCallsOk == \A i \in 1..Len(calls) : calls[i].ok

\* C1: whenever no external service raised during a submission, what
\* kg_enhanced_obesity_rag returns, and what the page shows as the answer, is the
\* text the LLM returned for the prompt built from the question and the two
\* query results.
C1_AnswerIsLLMOutput ==
    (Returned /\ AllCallsOk) =>
        /\ Len(calls) = 4
        /\ calls[4].args = BuildPrompt(question, KgContext(calls[2].ret, calls[3].ret))
        /\ answer = calls[4].ret
        /\ pc = "idle" => CountOf(Element("write", calls[4].ret)) = 1

\* C2: within one invocation the external calls are issued in the order
\* similarity search, guideline query, recipe query, LLM invocation, and a call
\* is issued only after every earlier one returned without raising.
C2_CallOrder ==
    LET order == <<"similarity_search", "guideline_query", "recipe_query", "llm_invoke">> IN
    /\ Len(calls) <= 4
    /\ \A i \in 1..Len(calls) :
          /\ calls[i].svc = order[i]
          /\ i < Len(calls) => calls[i].ok

C2_Witness == Len(calls) = 4 /\ calls[4].ok /\ pc = "render"

\* C3: an exception raised in any step of kg_enhanced_obesity_rag does not leave
\* the function: the function returns the error prefix followed by the
\* stringified error, and no step after the failing one is run.
C3_ExceptionsCaught ==
    raised.exc /= NoExc =>
        /\ Returned
        /\ answer = <<ErrPrefix>> \o raised.exc.msg
        /\ trace /= <<>> /\ trace[Len(trace)] = raised.at
        /\ calls /= <<>> => calls[Len(calls)].svc = raised.at
        /\ pc = "idle" => CountOf(Element("write", answer)) = 1

C3_Witness ==
    /\ raised.exc.cls = "TypeError" /\ raised.at = "guideline_query"
    /\ pc = "idle" /\ Len(calls) = 2

\* C4 as stated: the body of init_connections executes at most once, and every
\* rerun and query uses the objects of the first execution.
C4_BodyAtMostOnce ==
    /\ bodyRuns <= 1
    /\ graph_guideline /= 0 => <<graph_guideline, graph_recipe, llm>> = <<1, 1, 1>>

\* C4 amended: the body of init_connections completes at most once; an execution
\* that raises stores nothing and the next rerun executes the body again; once an
\* execution has completed the body is not executed again, and every rerun and
\* every query uses the objects that execution returned.
C4_OneCompletedInit ==
    /\ bodyReturns <= 1
    /\ bodyReturns = 1 => (firstHandles = <<bodyRuns, bodyRuns, bodyRuns>> /\ cache = firstHandles)
    /\ bodyReturns = 0 => cache = <<>>
    /\ graph_guideline /= 0 => <<graph_guideline, graph_recipe, llm>> = firstHandles
    /\ \A i \in 1..Len(calls) :
          /\ calls[i].svc = "guideline_query" => calls[i].handle = firstHandles[1]
          /\ calls[i].svc = "recipe_query" => calls[i].handle = firstHandles[2]
          /\ calls[i].svc = "llm_invoke" => calls[i].handle = firstHandles[3]

C4_Witness ==
    /\ bodyRuns = 2 /\ bodyReturns = 1
    /\ prev /= NoPrev
    /\ Len(calls) = 4 /\ calls[4].handle = 2

\* C5: during one submission each external call is attempted at most once, and
\* after a call failed no external call is attempted again.
C5_NoRetry ==
    /\ \A i, j \in 1..Len(calls) : i /= j => calls[i].svc /= calls[j].svc
    /\ \A i, j \in 1..Len(trace) : i /= j => trace[i] /= trace[j]
    /\ \A i \in 1..Len(calls) : ~calls[i].ok => i = Len(calls)

C5_Witness ==
    /\ pc = "idle" /\ invoked
    /\ Len(calls) = 3 /\ ~calls[3].ok

C7_NoResultCache ==
    /\ (Submitted /\ pc = "idle") => invoked
    /\ Returned =>
          /\ trace /= <<>> /\ trace[1] = "similarity_search"
          /\ vector_store = "bound" => (calls /= <<>> /\ calls[1].svc = "similarity_search")
          /\ \/ raised.exc /= NoExc /\ answer = ErrorAnswer(raised.exc)
             \/ Len(calls) = 4 /\ calls[4].ok /\ answer = calls[4].ret

C7_Witness ==
    /\ pc = "render" /\ prev.question = question
    /\ vector_store = "bound" /\ calls[1].svc = "similarity_search" /\ calls[1].ok

\* C8: the recipe query is sent with min_protein 20 or 0, max_sodium 500 or 2000,
\* max_kcal 600 or 2000, each decided by two keywords of the concatenated
\* guideline content; with no guideline rows it is sent with (0, 2000, 2000).
C8_Thresholds ==
    \A i \in 1..Len(calls) :
        calls[i].svc = "recipe_query" =>
            LET has(kw) == Contains(full_guideline_text, kw) IN
            /\ calls[i].args[1] = IF has(<<"dan", "baek", "jil">>) \/ has(<<"geun", "gam", "so">>)
                                  THEN 20 ELSE 0
            /\ calls[i].args[2] = IF has(<<"na", "teu", "ryum">>) \/ has(<<"eo", "reu", "sin">>)
                                  THEN 500 ELSE 2000
            /\ calls[i].args[3] = IF has(<<"jeo", "yeol", "ryang">>) \/ has(<<"bi", "man">>)
                                  THEN 600 ELSE 2000
            /\ full_guideline_text = Join(<<" ">>, [k \in 1..Len(guideline_results) |->
                                                      guideline_results[k].content.val])
            /\ guideline_results = <<>> => calls[i].args = <<0, 2000, 2000>>

C8_Witness ==
    /\ Contains(question, <<"bi", "man">>)
    /\ guideline_results = <<>>
    /\ Len(calls) = 3 /\ calls[3].svc = "recipe_query" /\ calls[3].args = <<0, 2000, 2000>>

\* C9: when the button is pressed with an empty text box a warning is shown and
\* kg_enhanced_obesity_rag is not called; when the button is not pressed no
\* external call is issued whatever the text box holds.
C9_NoCallWithoutSubmission ==
    /\ (button /\ user_input = EmptyText /\ pc = "idle" /\ graph_guideline /= 0) =>
          CountOf(Warning) = 1
    /\ (~button \/ user_input = EmptyText) => (~invoked /\ calls = <<>> /\ trace = <<>>)
    /\ ~(button /\ user_input = EmptyText) => CountOf(Warning) = 0

C9_Witness ==
    /\ button /\ user_input = EmptyText /\ pc = "idle"
    /\ CountOf(Warning) = 1 /\ prev /= NoPrev

\* C10: for every submission with non-empty input the success banner and the
\* answer are rendered exactly once, after kg_enhanced_obesity_rag returned, both
\* when the answer is the LLM's text and when it is the error string.
C10_BannerOnce ==
    /\ (Submitted /\ pc = "idle") =>
          /\ invoked
          /\ CountOf(Element("success", Done)) = 1
          /\ CountOf(Element("write", answer)) = 1
    /\ pc /= "idle" => CountOf(Element("success", Done)) = 0
    /\ \A i \in 1..Len(page) : page[i].kind \notin {"error", "exception"} \/ ~invoked

C10_Witness ==
    /\ Submitted /\ pc = "idle"
    /\ raised.exc /= NoExc /\ answer = ErrorAnswer(raised.exc)
    /\ CountOf(Element("success", Done)) = 1

====
